---- MODULE Spec2Model ----
(***************************************************************************)
(* Model of the KPI computation engine of src/dash_kpi_me.py: the record   *)
(* normalizer (clean_and_prepare_data), the filter engine (apply_filters), *)
(* the metrics and reliability calculators and the three weekly            *)
(* aggregators.  A record set (a pandas DataFrame) is a record             *)
(* [cols, rows]: the set of column names and the sequence of rows.         *)
(* Minutes are integers; a quotient the code computes in floating point is *)
(* kept as an exact fraction [k |-> "num", n, d], or as one of the IEEE    *)
(* values NaN, +inf, -inf when pandas divides by zero.                     *)
(***************************************************************************)
EXTENDS Integers, Sequences, FiniteSets, TLC

VARIABLES raw, df, sel, result, op, data, last_update, cache, now

vars == <<raw, df, sel, result, op, data, last_update, cache, now>>

\* The session's record set and timestamp, the cache of the loader, the clock.
session == <<data, last_update, cache, now>>

(***************************************************************************)
(* Bounds of the model.                                                    *)
(***************************************************************************)
MaxRows == 2

MaxRawRows == 2

MaxWeeklyRows == 2

MaxFilterRows == 2
\* The last minute of the clock.
MaxClock == 6

(***************************************************************************)
(* General helpers.                                                        *)
(***************************************************************************)
\* Mutant of Max: always the floor.
Max_Floor(a, b) == b

\* Mutant of Max: the first argument, unclamped.
Max_Unclamped(a, b) == a

Max(a, b) == IF a >= b THEN a ELSE b

RECURSIVE SumSeq(_)
SumSeq(s) == IF s = <<>> THEN 0 ELSE Head(s) + SumSeq(Tail(s))

SeqsUpTo(S, n) == UNION {[1..k -> S] : k \in 0..n}

(***************************************************************************)
(* Floating-point quotients: exact fractions and the IEEE specials.        *)
(***************************************************************************)
Rat(a, b) == [k |-> "num", n |-> a, d |-> b]

NaN == [k |-> "nan", n |-> 0, d |-> 0]

PosInf == [k |-> "inf", n |-> 1, d |-> 0]

NegInf == [k |-> "inf", n |-> -1, d |-> 0]

Zero == Rat(0, 1)

IsFinite(x) == x.k = "num" /\ x.d > 0

IsZero(x) == IsFinite(x) /\ x.n = 0

\* Equality of two finite fractions, and of a finite fraction with an integer.
RatEq(x, y) == IsFinite(x) /\ IsFinite(y) /\ x.n * y.d = y.n * x.d

RatIs(x, i) == IsFinite(x) /\ x.n = i * x.d

RatAdd(x, y) ==
    IF ~(IsFinite(x) /\ IsFinite(y)) THEN NaN
    ELSE IF x.d = y.d THEN Rat(x.n + y.n, x.d)
    ELSE Rat(x.n * y.d + y.n * x.d, x.d * y.d)

\* a / b on pandas Series (float64): division by zero yields NaN or +-inf.
SeriesDiv(a, b) ==
    IF b > 0 THEN Rat(a, b)
    ELSE IF b < 0 THEN Rat(-a, -b)
    ELSE IF a = 0 THEN NaN
    ELSE IF a > 0 THEN PosInf ELSE NegInf

\* x * 100 on a float.
Times100(x) == IF x.k = "num" THEN Rat(x.n * 100, x.d) ELSE x

\* 1 - exp(-x), kept symbolic in its exponent x.
OneMinusExp(x) == [k |-> "1-exp(-x)", x |-> x]

(***************************************************************************)
(* Calendar dates [y, m, d], as pandas Timestamps carry them.              *)
(***************************************************************************)
IsLeap(y) == (y % 4 = 0 /\ y % 100 # 0) \/ y % 400 = 0

DaysBeforeMonth(y, m) ==
    LET t == <<0, 31, 59, 90, 120, 151, 181, 212, 243, 273, 304, 334>>
    IN  t[m] + (IF m > 2 /\ IsLeap(y) THEN 1 ELSE 0)

DayOfYear(dt) == DaysBeforeMonth(dt.y, dt.m) + dt.d

\* Days since 0001-01-01 (day 1), the proleptic Gregorian ordinal.
Ordinal(dt) ==
    LET p == dt.y - 1
    IN  365 * p + (p \div 4) - (p \div 100) + (p \div 400) + DayOfYear(dt)

\* ISO weekday, Monday = 1 .. Sunday = 7.
IsoWeekday(dt) == ((Ordinal(dt) + 6) % 7) + 1

\* Number of ISO weeks of ISO year y (52 or 53).
IsoWeeksInYear(y) ==
    LET jan1 == IsoWeekday([y |-> y, m |-> 1, d |-> 1])
    IN  IF jan1 = 4 \/ (jan1 = 3 /\ IsLeap(y)) THEN 53 ELSE 52

\* Series.dt.isocalendar().week
IsoWeek(dt) ==
    LET w == (DayOfYear(dt) - IsoWeekday(dt) + 10) \div 7
    IN  IF w < 1 THEN IsoWeeksInYear(dt.y - 1)
        ELSE IF w > IsoWeeksInYear(dt.y) THEN 1
        ELSE w

\* The ISO year the ISO week of dt belongs to (Series.dt.isocalendar().year).
IsoYear(dt) ==
    LET w == (DayOfYear(dt) - IsoWeekday(dt) + 10) \div 7
    IN  IF w < 1 THEN dt.y - 1
        ELSE IF w > IsoWeeksInYear(dt.y) THEN dt.y + 1
        ELSE dt.y

\* Series.dt.year: the calendar year.
CalendarYear(dt) == dt.y

DateLeq(a, b) == Ordinal(a) <= Ordinal(b)

(***************************************************************************)
(* Record sets.  Column names are those clean_and_prepare_data leaves.     *)
(***************************************************************************)
AllCols ==
    {"EQUIPO", "CONJUNTO", "UBICACION_TECNICA", "TIPO_DE_MTTO", "STATUS",
     "PRODUCCION_AFECTADA", "FECHA_DE_INICIO", "HORA_INICIO", "FECHA_DE_FIN",
     "HORA_FINAL", "TR_MIN", "TR_MIN_CALCULADO", "TFC_MIN", "TFS_MIN",
     "TDISPONIBLE", "TIEMPO_PROG_MIN", "H_EXTRA_MIN"}

EMERGENCIA == "CORRECTIVO DE EMERGENCIA"

\* pd.DataFrame(): no columns, no rows.
EmptyFrame == [cols |-> {}, rows |-> <<>>]

\* Mutant of IsEmpty: a record set with no available time counts as empty.
IsEmpty_NoAvailableTime(d) ==
    d.rows = <<>> \/ d.cols = {} \/ \A i \in 1..Len(d.rows) : d.rows[i].TDISPONIBLE = 0

\* DataFrame.empty
IsEmpty(d) == d.rows = <<>> \/ d.cols = {}

\* {} : the mapping a calculator returns for "no data".
EmptyMap == [x \in {} |-> 0]

\* An exception leaving the function.
KeyError == [raised |-> "KeyError"]

IsRaised(r) == "raised" \in DOMAIN r

\* df[col].sum()
ColSum(rows, col) == SumSeq([i \in 1..Len(rows) |-> rows[i][col]])

\* Mutant of ProdAfectada: the mask keeps the records that did not affect production.
ProdAfectada_Negated(rows) == SelectSeq(rows, LAMBDA r : r.PRODUCCION_AFECTADA # "SI")

\* Mutant of ProdAfectada: the production mask is not applied.
ProdAfectada_Unmasked(rows) == rows

\* df[df['PRODUCCION_AFECTADA'] == 'SI']
ProdAfectada(rows) == SelectSeq(rows, LAMBDA r : r.PRODUCCION_AFECTADA = "SI")

\* Mutant of OfTipo: the type mask is not applied.
OfTipo_Any(rows, tipo) == rows

\* Mutant of OfTipo: only rows that also affected production are kept.
OfTipo_OnlyWithStoppage(rows, tipo) ==
    SelectSeq(rows, LAMBDA r : r.TIPO_DE_MTTO = tipo /\ r.PRODUCCION_AFECTADA = "SI")

\* df[df['TIPO DE MTTO'] == tipo]
OfTipo(rows, tipo) == SelectSeq(rows, LAMBDA r : r.TIPO_DE_MTTO = tipo)

(***************************************************************************)
(* calculate_metrics                                                       *)
(***************************************************************************)
\* (tipo_mtto_totals.get(tipo, 0) / total_mtto) * 100, total_mtto > 0
TipoPct(rows, tipo, total_mtto) ==
    Times100(Rat(ColSum(OfTipo(rows, tipo), "TR_MIN"), total_mtto))

calculate_metrics(d) ==
    IF IsEmpty(d) THEN EmptyMap
    ELSE IF {"PRODUCCION_AFECTADA", "TIPO_DE_MTTO", "TR_MIN"} \ d.cols # {}
    THEN KeyError
    ELSE
    LET rows == d.rows
        afect == ProdAfectada(rows)
        td == IF "TDISPONIBLE" \in d.cols THEN ColSum(rows, "TDISPONIBLE") ELSE 0
        tfs == IF "TFS_MIN" \in d.cols THEN ColSum(afect, "TFS_MIN") ELSE 0
        tr == IF "TR_MIN" \in d.cols THEN ColSum(afect, "TR_MIN") ELSE 0
        tfc == IF "TFC_MIN" \in d.cols THEN ColSum(afect, "TFC_MIN") ELSE 0
        to == Max(td - tfs, 0)
        total_fallas == Len(afect)
        landa == IF td > 0 THEN Rat(total_fallas, td) ELSE Zero
        total_mtto == ColSum(rows, "TR_MIN")
        pct(tipo) == IF total_mtto > 0 THEN TipoPct(rows, tipo, total_mtto) ELSE Zero
    IN  [td |-> td, tfs |-> tfs, tr |-> tr, tfc |-> tfc, to |-> to,
         disponibilidad |-> IF td > 0 THEN Times100(Rat(to, td)) ELSE Zero,
         indisponibilidad |-> IF td > 0 THEN Times100(Rat(tfs, td)) ELSE Zero,
         total_fallas |-> total_fallas,
         mtbf |-> IF total_fallas > 0 THEN Rat(td, total_fallas) ELSE Zero,
         mttf |-> IF total_fallas > 0 THEN Rat(to, total_fallas) ELSE Zero,
         mttr |-> IF total_fallas > 0 THEN Rat(tr, total_fallas) ELSE Zero,
         mantenibilidad |->
             IF landa.n > 0 THEN OneMinusExp(Rat(landa.n * td, landa.d)) ELSE Zero,
         mp_pct |-> pct("PREVENTIVO"),
         mbc_pct |-> pct("BASADO EN CONDICION"),
         mce_pct |-> pct(EMERGENCIA),
         mcp_pct |-> pct("CORRECTIVO PROGRAMADO"),
         mms_pct |-> pct("MEJORA DE SISTEMA"),
         horas_extras_acumuladas |->
             IF "H_EXTRA_MIN" \in d.cols THEN ColSum(rows, "H_EXTRA_MIN") ELSE 0]

(***************************************************************************)
(* calculate_reliability_metrics                                           *)
(***************************************************************************)
calculate_reliability_metrics(d) ==
    IF IsEmpty(d) THEN EmptyMap
    ELSE IF "TIPO_DE_MTTO" \notin d.cols THEN KeyError
    ELSE
    LET df_emergency == OfTipo(d.rows, EMERGENCIA)
    IN
    IF df_emergency = <<>> THEN EmptyMap
    ELSE IF "PRODUCCION_AFECTADA" \notin d.cols THEN KeyError
    ELSE
    LET td == IF "TDISPONIBLE" \in d.cols THEN ColSum(d.rows, "TDISPONIBLE") ELSE 0
        tr_emergency == IF "TR_MIN" \in d.cols THEN ColSum(df_emergency, "TR_MIN") ELSE 0
        tfc_emergency == IF "TFC_MIN" \in d.cols THEN ColSum(df_emergency, "TFC_MIN") ELSE 0
        tfs_emergency == IF "TFS_MIN" \in d.cols THEN ColSum(df_emergency, "TFS_MIN") ELSE 0
        total_fallas_emergency == Len(df_emergency)
        con_parada == ProdAfectada(df_emergency)
        tfs_emergency_prod ==
            IF "TFS_MIN" \in d.cols THEN ColSum(con_parada, "TFS_MIN") ELSE 0
        to_emergency == Max(td - tfs_emergency_prod, 0)
        landa_emergency == IF td > 0 THEN Rat(total_fallas_emergency, td) ELSE Zero
        mantenibilidad_emergency ==
            IF landa_emergency.n > 0
            THEN OneMinusExp(Rat(landa_emergency.n * td, landa_emergency.d))
            ELSE Zero
    IN  [td |-> td,
         tr_emergency |-> tr_emergency,
         tfc_emergency |-> tfc_emergency,
         tfs_emergency |-> tfs_emergency,
         total_fallas_emergency |-> total_fallas_emergency,
         total_fallas_emergency_con_parada |-> Len(con_parada),
         mtbf_emergency |->
             IF total_fallas_emergency > 0
             THEN (IF td > 0 THEN Rat(td, total_fallas_emergency) ELSE Zero)
             ELSE Zero,
         mttr_emergency |->
             IF total_fallas_emergency > 0
             THEN Rat(tr_emergency, total_fallas_emergency)
             ELSE Zero,
         mttf_emergency |->
             IF total_fallas_emergency > 0
             THEN Rat(to_emergency, total_fallas_emergency)
             ELSE Zero,
         mantenibilidad_emergency |-> mantenibilidad_emergency,
         mantenibilidad_pct |->
             IF mantenibilidad_emergency.k = "num"
             THEN Times100(mantenibilidad_emergency)
             ELSE [k |-> "x100", x |-> mantenibilidad_emergency]]

(***************************************************************************)
(* Strings the weekly aggregators build, as sequences of character codes,  *)
(* so that pandas' string sort can be modelled as it compares them.        *)
(***************************************************************************)
\* str(n) for an integer n >= 0: its decimal digits ('0' is code 48).
RECURSIVE StrOfInt(_)
StrOfInt(n) == IF n < 10 THEN <<48 + n>> ELSE StrOfInt(n \div 10) \o <<48 + (n % 10)>>

\* The integer a string of digits spells.
RECURSIVE IntOfStr(_)
IntOfStr(s) ==
    IF s = <<>> THEN 0 ELSE 10 * IntOfStr(SubSeq(s, 1, Len(s) - 1)) + (s[Len(s)] - 48)

\* Mutant of zfill: the week number is not padded.
zfill_Unpadded(s, width) == s

\* Series.str.zfill(width): pad on the left with '0'.
RECURSIVE zfill(_, _)
zfill(s, width) == IF Len(s) >= width THEN s ELSE zfill(<<48>> \o s, width)

\* a < b for Python strings: lexicographic by code point.
RECURSIVE StrLess(_, _)
StrLess(a, b) ==
    IF b = <<>> THEN FALSE
    ELSE IF a = <<>> THEN TRUE
    ELSE IF Head(a) # Head(b) THEN Head(a) < Head(b)
    ELSE StrLess(Tail(a), Tail(b))

\* AÑO.astype(str) + '-S' + SEMANA.astype(str).str.zfill(2)
SemanaStr(anio, semana) == StrOfInt(anio) \o <<45, 83>> \o zfill(StrOfInt(semana), 2)

\* AÑO.astype(str) + SEMANA.astype(str).str.zfill(2)
SemanaNum(anio, semana) == StrOfInt(anio) \o zfill(StrOfInt(semana), 2)

\* The three columns every weekly aggregator adds to its copy of the input.
WithWeek(r) ==
    LET semana == IsoWeek(r.FECHA_DE_INICIO)
        anio == CalendarYear(r.FECHA_DE_INICIO)
    IN  [SEMANA |-> semana, ANIO |-> anio, SEMANA_STR |-> SemanaStr(anio, semana),
         row |-> r]

WeekRows(rows) == [i \in 1..Len(rows) |-> WithWeek(rows[i])]

\* The group key of groupby(['SEMANA_STR', 'AÑO', 'SEMANA']).
GroupKey(w) == <<w.SEMANA_STR, w.ANIO, w.SEMANA>>

\* Order of two group keys: groupby emits its groups sorted by key.
KeyLess(a, b) ==
    \/ StrLess(a[1], b[1])
    \/ a[1] = b[1] /\ (a[2] < b[2] \/ (a[2] = b[2] /\ a[3] < b[3]))

\* The distinct group keys of the rows, in groupby's (sorted) order.
RECURSIVE SortedKeys(_)
SortedKeys(K) ==
    IF K = {} THEN <<>>
    ELSE LET least == CHOOSE a \in K : \A b \in K \ {a} : KeyLess(a, b)
         IN  <<least>> \o SortedKeys(K \ {least})

GroupKeys(wrows) == SortedKeys({GroupKey(wrows[i]) : i \in 1..Len(wrows)})

\* Mutant of GroupOf: every row, whatever its key.
GroupOf_All(wrows, key) == [i \in 1..Len(wrows) |-> wrows[i].row]

\* The rows of one group, in input order.
GroupOf(wrows, key) ==
    LET g == SelectSeq(wrows, LAMBDA w : GroupKey(w) = key)
    IN  [i \in 1..Len(g) |-> g[i].row]

\* DataFrame.sort_values('SEMANA_NUM'): ascending by the string column.
RECURSIVE InsertBySemanaNum(_, _)
InsertBySemanaNum(b, sorted) ==
    IF sorted = <<>> THEN <<b>>
    ELSE IF StrLess(b.SEMANA_NUM, Head(sorted).SEMANA_NUM)
         THEN <<b>> \o sorted
         ELSE <<Head(sorted)>> \o InsertBySemanaNum(b, Tail(sorted))

RECURSIVE SortBySemanaNum(_)
SortBySemanaNum(buckets) ==
    IF buckets = <<>> THEN <<>>
    ELSE InsertBySemanaNum(buckets[Len(buckets)],
                           SortBySemanaNum(SubSeq(buckets, 1, Len(buckets) - 1)))

(***************************************************************************)
(* get_weekly_data                                                         *)
(***************************************************************************)
WeeklyBucket(key, g) ==
    LET tfs == ColSum(g, "TFS_MIN")
        tdisp == ColSum(g, "TDISPONIBLE")
    IN  [SEMANA_STR |-> key[1], ANIO |-> key[2], SEMANA |-> key[3],
         TFS_MIN |-> tfs,
         TR_MIN |-> ColSum(g, "TR_MIN"),
         TFC_MIN |-> ColSum(g, "TFC_MIN"),
         TDISPONIBLE |-> tdisp,
         PRODUCCION_AFECTADA |-> Len(ProdAfectada(g)),
         DISPO_SEMANAL |-> Times100(SeriesDiv(tdisp - tfs, tdisp)),
         SEMANA_NUM |-> SemanaNum(key[2], key[3])]

WeeklyCols ==
    {"SEMANA_STR", "ANIO", "SEMANA", "TFS_MIN", "TR_MIN", "TFC_MIN", "TDISPONIBLE",
     "PRODUCCION_AFECTADA", "DISPO_SEMANAL", "SEMANA_NUM"}

get_weekly_data(d) ==
    IF IsEmpty(d) \/ "FECHA_DE_INICIO" \notin d.cols THEN EmptyFrame
    ELSE IF {"PRODUCCION_AFECTADA", "TFS_MIN", "TR_MIN", "TFC_MIN", "TDISPONIBLE"}
                \ d.cols # {}
    THEN KeyError
    ELSE
    LET df_weekly == WeekRows(d.rows)
        afect == SelectSeq(df_weekly, LAMBDA w : w.row.PRODUCCION_AFECTADA = "SI")
        keys == GroupKeys(afect)
        weekly_data == [i \in 1..Len(keys) |-> WeeklyBucket(keys[i], GroupOf(afect, keys[i]))]
    IN  [cols |-> WeeklyCols, rows |-> SortBySemanaNum(weekly_data)]

(***************************************************************************)
(* get_weekly_extra_hours                                                  *)
(***************************************************************************)
\* Mutant of get_weekly_extra_hours: only production-affected records are grouped.
get_weekly_extra_hours_OnlyAffected(d) ==
    IF IsEmpty(d) \/ "FECHA_DE_INICIO" \notin d.cols THEN EmptyFrame
    ELSE IF "H_EXTRA_MIN" \notin d.cols THEN KeyError
    ELSE
    LET df_weekly == WeekRows(ProdAfectada(d.rows))
        keys == GroupKeys(df_weekly)
    IN  [cols |-> {"SEMANA_STR", "ANIO", "SEMANA", "H_EXTRA_MIN", "SEMANA_NUM"},
         rows |-> SortBySemanaNum(
                    [i \in 1..Len(keys) |->
                        [SEMANA_STR |-> keys[i][1], ANIO |-> keys[i][2],
                         SEMANA |-> keys[i][3],
                         H_EXTRA_MIN |-> ColSum(GroupOf(df_weekly, keys[i]), "H_EXTRA_MIN"),
                         SEMANA_NUM |-> SemanaNum(keys[i][2], keys[i][3])]])]

ExtraBucket(key, g) ==
    [SEMANA_STR |-> key[1], ANIO |-> key[2], SEMANA |-> key[3],
     H_EXTRA_MIN |-> ColSum(g, "H_EXTRA_MIN"),
     SEMANA_NUM |-> SemanaNum(key[2], key[3])]

get_weekly_extra_hours(d) ==
    IF IsEmpty(d) \/ "FECHA_DE_INICIO" \notin d.cols THEN EmptyFrame
    ELSE IF "H_EXTRA_MIN" \notin d.cols THEN KeyError
    ELSE
    LET df_weekly == WeekRows(d.rows)
        keys == GroupKeys(df_weekly)
        weekly_extra_data ==
            [i \in 1..Len(keys) |-> ExtraBucket(keys[i], GroupOf(df_weekly, keys[i]))]
    IN  [cols |-> {"SEMANA_STR", "ANIO", "SEMANA", "H_EXTRA_MIN", "SEMANA_NUM"},
         rows |-> SortBySemanaNum(weekly_extra_data)]

(***************************************************************************)
(* get_weekly_emergency_data                                               *)
(***************************************************************************)
\* Mutant of EmergencyBucket: the available time of the last record seen.
EmergencyBucket_LastSeen(key, g) ==
    [SEMANA_STR |-> key[1], ANIO |-> key[2], SEMANA |-> key[3],
     TR_MIN |-> ColSum(g, "TR_MIN"),
     TFC_MIN |-> ColSum(g, "TFC_MIN"),
     TFS_MIN |-> ColSum(g, "TFS_MIN"),
     TDISPONIBLE |-> g[Len(g)].TDISPONIBLE,
     NUM_ORDENES_EMERGENCIA |-> Len(g),
     NUM_ORDENES_EMERGENCIA_PARADA |-> Len(ProdAfectada(g)),
     MTTR_SEMANAL |-> IF Len(g) > 0 THEN Rat(ColSum(g, "TR_MIN"), Len(g)) ELSE Zero,
     SEMANA_NUM |-> SemanaNum(key[2], key[3])]

EmergencyBucket(key, g) ==
    LET tr == ColSum(g, "TR_MIN")
        num_ordenes == Len(g)
    IN  [SEMANA_STR |-> key[1], ANIO |-> key[2], SEMANA |-> key[3],
         TR_MIN |-> tr,
         TFC_MIN |-> ColSum(g, "TFC_MIN"),
         TFS_MIN |-> ColSum(g, "TFS_MIN"),
         TDISPONIBLE |-> g[1].TDISPONIBLE,
         NUM_ORDENES_EMERGENCIA |-> num_ordenes,
         NUM_ORDENES_EMERGENCIA_PARADA |-> Len(ProdAfectada(g)),
         MTTR_SEMANAL |-> IF num_ordenes > 0 THEN Rat(tr, num_ordenes) ELSE Zero,
         SEMANA_NUM |-> SemanaNum(key[2], key[3])]

get_weekly_emergency_data(d) ==
    IF IsEmpty(d) \/ "FECHA_DE_INICIO" \notin d.cols THEN EmptyFrame
    ELSE IF "TIPO_DE_MTTO" \notin d.cols THEN KeyError
    ELSE
    LET df_weekly == WeekRows(d.rows)
        df_emergency == SelectSeq(df_weekly, LAMBDA w : w.row.TIPO_DE_MTTO = EMERGENCIA)
    IN
    IF df_emergency = <<>> THEN EmptyFrame
    ELSE IF {"TR_MIN", "TFC_MIN", "TFS_MIN", "TDISPONIBLE", "PRODUCCION_AFECTADA"}
                \ d.cols # {}
    THEN KeyError
    ELSE
    LET keys == GroupKeys(df_emergency)
        weekly_emergency_data ==
            [i \in 1..Len(keys) |->
                EmergencyBucket(keys[i], GroupOf(df_emergency, keys[i]))]
    IN  [cols |-> {"SEMANA_STR", "ANIO", "SEMANA", "TR_MIN", "TFC_MIN", "TFS_MIN",
                   "TDISPONIBLE", "NUM_ORDENES_EMERGENCIA",
                   "NUM_ORDENES_EMERGENCIA_PARADA", "MTTR_SEMANAL", "SEMANA_NUM"},
         rows |-> SortBySemanaNum(weekly_emergency_data)]

(***************************************************************************)
(* apply_filters                                                           *)
(***************************************************************************)
\* The sentinel "Todos".
Todos == <<84, 111, 100, 111, 115>>

\* None, for a date bound that is not supplied.
NoneDate == [y |-> 0, m |-> 0, d |-> 0]

\* Series.astype(str) on one cell: an integer prints its digits, a string is itself.
AsStr(cell) == IF cell.t = "int" THEN StrOfInt(cell.v) ELSE cell.v

\* Mutant of FilterEq: the slice of the matches starts one row late.
FilterEq_OffByOne(d, col, value) ==
    IF IsRaised(d) THEN d
    ELSE IF col \notin d.cols THEN KeyError
    ELSE LET m == SelectSeq(d.rows, LAMBDA r : AsStr(r[col]) = value)
         IN  [d EXCEPT !.rows = IF m = <<>> THEN m ELSE Tail(m)]

\* filtered_df[filtered_df[col].astype(str) == value]
FilterEq(d, col, value) ==
    IF IsRaised(d) THEN d
    ELSE IF col \notin d.cols THEN KeyError
    ELSE [d EXCEPT !.rows = SelectSeq(d.rows, LAMBDA r : AsStr(r[col]) = value)]

\* Series.dt.date on one timestamp: its calendar date, the time of day dropped.
DateOf(ts) == [y |-> ts.y, m |-> ts.m, d |-> ts.d]

\* Mutant of FilterDates: the end of the range is excluded.
FilterDates_ExclusiveEnd(d, fecha_inicio, fecha_fin) ==
    IF IsRaised(d) THEN d
    ELSE IF "FECHA_DE_INICIO" \notin d.cols THEN KeyError
    ELSE [d EXCEPT !.rows =
            SelectSeq(d.rows, LAMBDA r :
                /\ DateLeq(fecha_inicio, DateOf(r.FECHA_DE_INICIO))
                /\ DateOf(r.FECHA_DE_INICIO) # fecha_fin
                /\ DateLeq(DateOf(r.FECHA_DE_INICIO), fecha_fin))]

\* The date-range mask on FECHA_DE_INICIO.dt.date, both ends included.
FilterDates(d, fecha_inicio, fecha_fin) ==
    IF IsRaised(d) THEN d
    ELSE IF "FECHA_DE_INICIO" \notin d.cols THEN KeyError
    ELSE [d EXCEPT !.rows =
            SelectSeq(d.rows, LAMBDA r :
                /\ DateLeq(fecha_inicio, DateOf(r.FECHA_DE_INICIO))
                /\ DateLeq(DateOf(r.FECHA_DE_INICIO), fecha_fin))]

\* Mutant of apply_filters: a location value matches no record of a record
\* set that has no location column.
apply_filters_Strict(d, equipo_filter, conjunto_filter, ubicacion_filter, fecha_inicio, fecha_fin) ==
    LET f1 == IF equipo_filter # Todos THEN FilterEq(d, "EQUIPO", equipo_filter) ELSE d
        f2 == IF conjunto_filter # Todos THEN FilterEq(f1, "CONJUNTO", conjunto_filter) ELSE f1
        f3 == IF ubicacion_filter = Todos \/ IsRaised(f2) THEN f2
              ELSE IF "UBICACION_TECNICA" \in d.cols
              THEN FilterEq(f2, "UBICACION_TECNICA", ubicacion_filter)
              ELSE [f2 EXCEPT !.rows = <<>>]
    IN  IF fecha_inicio # NoneDate /\ fecha_fin # NoneDate
        THEN FilterDates(f3, fecha_inicio, fecha_fin)
        ELSE f3

apply_filters(d, equipo_filter, conjunto_filter, ubicacion_filter, fecha_inicio, fecha_fin) ==
    LET f1 == IF equipo_filter # Todos THEN FilterEq(d, "EQUIPO", equipo_filter) ELSE d
        f2 == IF conjunto_filter # Todos THEN FilterEq(f1, "CONJUNTO", conjunto_filter) ELSE f1
        f3 == IF ubicacion_filter # Todos /\ "UBICACION_TECNICA" \in d.cols
              THEN FilterEq(f2, "UBICACION_TECNICA", ubicacion_filter)
              ELSE f2
    IN  IF fecha_inicio # NoneDate /\ fecha_fin # NoneDate
        THEN FilterDates(f3, fecha_inicio, fecha_fin)
        ELSE f3

\* apply_filters with the selection held in one record.
ApplySel(d, s) ==
    apply_filters(d, s.equipo, s.conjunto, s.ubicacion, s.fecha_inicio, s.fecha_fin)

(***************************************************************************)
(* calcular_duracion_minutos and clean_and_prepare_data.                   *)
(* A raw cell is [t, v]: a number ("num"), an empty cell ("nan"), a text   *)
(* ("str", its character codes), a date ("date") or a time of day ("time", *)
(* minutes since midnight).  A row is a function from the column names,    *)
(* and from "index" (the DataFrame's index label), to cells.               *)
(***************************************************************************)
NumCell(n) == [t |-> "num", v |-> n]

NanCell == [t |-> "nan", v |-> 0]

StrCell(codes) == [t |-> "str", v |-> codes]

DateCell(dt) == [t |-> "date", v |-> dt]

TimeCell(minutes) == [t |-> "time", v |-> minutes]

\* pd.NaT
NaT == [y |-> 0, m |-> 0, d |-> 0]

ValueError == [raised |-> "ValueError"]

\* The columns rename() renames, as <<raw name, canonical name>>.
RenamePairs ==
    {<<"FECHA DE INICIO", "FECHA_DE_INICIO">>,
     <<"FECHA DE FIN", "FECHA_DE_FIN">>,
     <<"Tiempo Prog (min)", "TIEMPO_PROG_MIN">>,
     <<"PRODUCCION AFECTADA (SI-NO)", "PRODUCCION_AFECTADA">>,
     <<"TIEMPO ESTIMADO DIARIO (min)", "TDISPONIBLE">>,
     <<"TR (min)", "TR_MIN">>,
     <<"TFC (min)", "TFC_MIN">>,
     <<"TFS (min)", "TFS_MIN">>,
     <<"h normal (min)", "H_NORMAL_MIN">>,
     <<"h extra (min)", "H_EXTRA_MIN">>,
     <<"HORA PARADA DE MAQUINA", "HORA_PARADA">>,
     <<"HORA INICIO", "HORA_INICIO">>,
     <<"HORA FINAL", "HORA_FINAL">>,
     <<"HORA DE ARRANQUE", "HORA_ARRANQUE">>,
     \* not renamed by the code: 'TIPO DE MTTO' is written TIPO_DE_MTTO here
     <<"TIPO DE MTTO", "TIPO_DE_MTTO">>}

RenameCol(c) ==
    IF \E p \in RenamePairs : p[1] = c
    THEN (CHOOSE p \in RenamePairs : p[1] = c)[2]
    ELSE c

\* The technical-location column under its other two spellings.
UbicacionAlias(cols) ==
    IF "UBICACION_TECNICA" \notin cols /\ "UBICACION TECNICA" \in cols
    THEN "UBICACION TECNICA"
    ELSE IF "UBICACION_TECNICA" \notin cols /\ "Ubicacion Tecnica" \in cols
    THEN "Ubicacion Tecnica"
    ELSE "UBICACION_TECNICA"

\* DataFrame.rename(columns=...) for both renaming steps.
RenameFrame(d) ==
    LET alias == UbicacionAlias(d.cols)
        new(c) == IF c = alias THEN "UBICACION_TECNICA" ELSE RenameCol(c)
        old(c) == IF c = "index" THEN c ELSE CHOOSE o \in d.cols : new(o) = c
        cols == {new(c) : c \in d.cols}
    IN  [cols |-> cols,
         rows |-> [i \in 1..Len(d.rows) |->
                     [c \in cols \cup {"index"} |-> d.rows[i][old(c)]]]]

\* pd.to_datetime on one cell of a date column: a date, NaT for an empty
\* cell; a text that is no date makes to_datetime raise.
DateParses(cell) == cell.t \in {"date", "nan"}

ToDatetime(cell) == IF cell.t = "date" THEN cell.v ELSE NaT

\* str(hora) parses as a time of day.
TimeParses(cell) == cell.t = "time"

calcular_duracion_minutos(fecha_inicio, hora_inicio, fecha_fin, hora_fin) ==
    IF fecha_inicio = NaT \/ fecha_fin = NaT
       \/ ~TimeParses(hora_inicio) \/ ~TimeParses(hora_fin)
    THEN 0
    ELSE Max((Ordinal(fecha_fin) * 1440 + hora_fin.v)
                - (Ordinal(fecha_inicio) * 1440 + hora_inicio.v), 0)

IsDigits(codes) == codes # <<>> /\ \A i \in 1..Len(codes) : codes[i] \in 48..57

\* pd.to_numeric(errors='coerce').fillna(0) on one cell.
ToNumeric(cell) ==
    IF cell.t = "num" THEN cell.v
    ELSE IF cell.t = "str" /\ IsDigits(cell.v) THEN IntOfStr(cell.v)
    ELSE 0

\* x['TR_MIN_CALCULADO'] if pd.isna(x['TR_MIN']) or x['TR_MIN'] == 0 else x['TR_MIN']
TrFallback(cell, calculado) ==
    IF cell.t = "nan" \/ (cell.t = "num" /\ cell.v = 0) THEN NumCell(calculado) ELSE cell

NumericColumns == {"TR_MIN", "TFC_MIN", "TFS_MIN", "TDISPONIBLE", "TIEMPO_PROG_MIN", "H_EXTRA_MIN"}

\* One row through the date conversion, the TR fallback and the coercion.
CleanRow(r, cols) ==
    LET fi == ToDatetime(r["FECHA_DE_INICIO"])
        ff == ToDatetime(r["FECHA_DE_FIN"])
        calculado == calcular_duracion_minutos(fi, r["HORA_INICIO"], ff, r["HORA_FINAL"])
        tr == IF "TR_MIN" \in cols THEN TrFallback(r["TR_MIN"], calculado)
              ELSE NumCell(calculado)
    IN  [c \in cols \cup {"TR_MIN_CALCULADO", "TR_MIN", "index"} |->
            IF c = "FECHA_DE_INICIO" THEN fi
            ELSE IF c = "FECHA_DE_FIN" THEN ff
            ELSE IF c = "TR_MIN_CALCULADO" THEN calculado
            ELSE IF c = "TR_MIN" THEN ToNumeric(tr)
            ELSE IF c \in NumericColumns THEN ToNumeric(r[c])
            ELSE r[c]]

clean_and_prepare_data(d) ==
    LET df_clean == RenameFrame(d)
        cols == df_clean.cols
        rows == df_clean.rows
    IN  IF {"FECHA_DE_INICIO", "FECHA_DE_FIN"} \ cols # {} THEN KeyError
        ELSE IF \E i \in 1..Len(rows) : ~DateParses(rows[i]["FECHA_DE_INICIO"])
                                        \/ ~DateParses(rows[i]["FECHA_DE_FIN"])
        THEN ValueError
        ELSE IF {"HORA_INICIO", "HORA_FINAL"} \ cols # {} THEN KeyError
        ELSE
        LET cleaned == [i \in 1..Len(rows) |-> CleanRow(rows[i], cols)]
        IN  [cols |-> cols \cup {"TR_MIN_CALCULADO", "TR_MIN"},
             rows |-> IF "STATUS" \in cols
                      THEN SelectSeq(cleaned, LAMBDA r : r["STATUS"] = "CULMINADO")
                      ELSE cleaned]

(***************************************************************************)
(* What a call leaves in the record set passed to it.  A name refers to an *)
(* object: the caller's ("arg") or one made during the call ("new"); a     *)
(* column assignment writes to the object its name refers to.              *)
(***************************************************************************)
\* The parameter df on entry: it refers to the caller's object.
ArgRef(d) == [obj |-> "arg", val |-> d]

\* Mutant of copy: no copy is made, the name refers to the same object.
copy_Alias(ref) == ref

\* DataFrame.copy(): a new object with the same contents.
copy(ref) == [obj |-> "new", val |-> ref.val]

\* DataFrame.rename(columns=...): a new object with the columns renamed.
rename(ref) == [obj |-> "new", val |-> RenameFrame(ref.val)]

\* The caller's object once the call has written `written` through ref.
ArgAfter(d, ref, written) == IF ref.obj = "arg" THEN written ELSE d

\* df_weekly['SEMANA'], df_weekly['AÑO'], df_weekly['SEMANA_STR'] assigned.
AddWeekColumns(d) ==
    [cols |-> d.cols \cup {"SEMANA", "ANIO", "SEMANA_STR"},
     rows |-> [i \in 1..Len(d.rows) |->
                 LET r == d.rows[i]
                     w == WithWeek(r)
                 IN  [c \in DOMAIN r \cup {"SEMANA", "ANIO", "SEMANA_STR"} |->
                         IF c = "SEMANA" THEN w.SEMANA
                         ELSE IF c = "ANIO" THEN w.ANIO
                         ELSE IF c = "SEMANA_STR" THEN w.SEMANA_STR
                         ELSE r[c]]]]

\* The argument of a weekly aggregator after the call: the week columns are
\* assigned on df_weekly = df.copy().
WeeklyArgAfter(d) ==
    IF IsEmpty(d) \/ "FECHA_DE_INICIO" \notin d.cols THEN d
    ELSE LET df_weekly == copy(ArgRef(d))
         IN  ArgAfter(d, df_weekly, AddWeekColumns(df_weekly.val))

\* The argument of clean_and_prepare_data after the call: every column
\* assignment is on df_clean, the object rename() returned.
CleanArgAfter(d) ==
    LET df_clean == rename(copy(ArgRef(d)))
        cleaned == clean_and_prepare_data(d)
    IN  IF IsRaised(cleaned) THEN d
        ELSE ArgAfter(d, df_clean, [cleaned EXCEPT !.rows = df_clean.val.rows])

\* The argument of apply_filters after the call: filtered_df = df.copy() is
\* only read, each mask makes a new object.
FilterArgAfter(d) ==
    LET filtered_df == copy(ArgRef(d))
    IN  ArgAfter(d, filtered_df, filtered_df.val)

(***************************************************************************)
(* load_data_from_google_sheets, its cache, and the session state of main. *)
(* The source is the sheet pd.read_excel returns, or the error it raises.  *)
(* The clock counts minutes.                                               *)
(***************************************************************************)
HTTPError == [raised |-> "HTTPError"]

\* Mutant of load_data_from_google_sheets: when normalization fails the
\* sheet as read is returned.
load_data_ReturnsSheet(source) ==
    IF IsRaised(source) THEN EmptyFrame
    ELSE LET d == clean_and_prepare_data(source)
         IN  IF IsRaised(d) THEN source ELSE d

\* The body of load_data_from_google_sheets: any exception of the fetch or
\* of the normalization is caught and pd.DataFrame() returned.
load_data_from_google_sheets(source) ==
    IF IsRaised(source) THEN EmptyFrame
    ELSE LET d == clean_and_prepare_data(source)
         IN  IF IsRaised(d) THEN EmptyFrame ELSE d

\* @st.cache_data(ttl=300): five minutes.
TTL == 5

\* The cache holds no value for the loader.
NoEntry == [set |-> FALSE, value |-> EmptyFrame, at |-> 0]

\* The cached value is served while it is younger than the ttl.
CacheValid(c, t) == c.set /\ t - c.at < TTL

\* st.session_state.last_update = None
None == [set |-> FALSE, at |-> 0]

\* get_current_datetime_spanish(): the clock's reading, as text.
get_current_datetime_spanish(t) == [set |-> TRUE, at |-> t]

(***************************************************************************)
(* The record sets the operations are applied to.                          *)
(***************************************************************************)
Date(y, m, d) == [y |-> y, m |-> m, d |-> d]

\* A timestamp: a date and a time of day in minutes since midnight.
Timestamp(y, m, d, minutes) == [y |-> y, m |-> m, d |-> d, min |-> minutes]

\* A normalized row; the fields an analysis does not read are held fixed.
Row(equipo, conjunto, tipo, prod, fecha, tr, tfc, tfs, td, hextra) ==
    [EQUIPO |-> equipo, CONJUNTO |-> conjunto, UBICACION_TECNICA |-> StrCell(<<76, 49>>),
     TIPO_DE_MTTO |-> tipo, STATUS |-> "CULMINADO", PRODUCCION_AFECTADA |-> prod,
     FECHA_DE_INICIO |-> fecha, HORA_INICIO |-> TimeCell(600),
     FECHA_DE_FIN |-> fecha, HORA_FINAL |-> TimeCell(600),
     TR_MIN |-> tr, TR_MIN_CALCULADO |-> 0, TFC_MIN |-> tfc, TFS_MIN |-> tfs,
     TDISPONIBLE |-> td, TIEMPO_PROG_MIN |-> 0, H_EXTRA_MIN |-> hextra]

\* A frame over the given columns: each row restricted to them, plus its index label.
Frame(cols, rows) ==
    [cols |-> cols,
     rows |-> [i \in 1..Len(rows) |->
                 [c \in cols \cup {"index"} |-> IF c = "index" THEN i - 1 ELSE rows[i][c]]]]

Frames(cols, RowSet, n) == {Frame(cols, rows) : rows \in SeqsUpTo(RowSet, n)}

NoSelection ==
    [equipo |-> Todos, conjunto |-> Todos, ubicacion |-> Todos,
     fecha_inicio |-> NoneDate, fecha_fin |-> NoneDate]

EqA == StrCell(<<65>>)

CjM == StrCell(<<77>>)

D0 == Date(2024, 3, 15)

\* Rows for the two calculators: type, production flag, TR, TFS and TD vary.
MetricRows ==
    {Row(EqA, CjM, tipo, prod, D0, tr, 0, tfs, td, 0) :
        tipo \in {"PREVENTIVO", EMERGENCIA, "OTRO"}, prod \in {"SI", "NO"},
        tr \in {0, 30}, tfs \in {0, 90}, td \in {0, 60}}

\* Rows for the weekly aggregators: the start date varies over weeks 1, 9 and
\* 11 of 2024, the last days of 2024 (ISO week 1 of 2025) and 1 January 2025.
WeeklyDates ==
    {Date(2024, 1, 2), Date(2024, 2, 28), Date(2024, 3, 15), Date(2024, 12, 30),
     Date(2025, 1, 1)}

WeeklyRows ==
    {Row(EqA, CjM, tipo, prod, fecha, 30, 10, 20, td, 5) :
        tipo \in {"PREVENTIVO", EMERGENCIA}, prod \in {"SI", "NO"},
        fecha \in WeeklyDates, td \in {0, 60}}

\* The three records of the scenario, with the fields it leaves open varying.
ScenarioRecords ==
    {<<Row(EqA, CjM, EMERGENCIA, "SI", D0, 60, 10, tfs1, 1440, 5),
       Row(EqA, CjM, "PREVENTIVO", "NO", D0, 30, 10, tfs2, td2, 5),
       Row(StrCell(<<66>>), CjM, EMERGENCIA, "NO", D0, 20, 10, tfs3, 1440, 5)>> :
        tfs1 \in {0, 15}, tfs2 \in {0, 15}, tfs3 \in {0, 15}, td2 \in {0, 1440}}

Permutations3 ==
    {<<1, 2, 3>>, <<1, 3, 2>>, <<2, 1, 3>>, <<2, 3, 1>>, <<3, 1, 2>>, <<3, 2, 1>>}

ScenarioFrames ==
    {Frame(AllCols, [i \in 1..3 |-> t[p[i]]]) : t \in ScenarioRecords, p \in Permutations3}

\* Rows for the filter engine: equipment as text or as a number, assembly and
\* start timestamp (15 March 2024 at 10:00, 30 December 2024 at 00:00) vary.
FilterRows ==
    {Row(equipo, conjunto, "PREVENTIVO", "SI", fecha, 30, 10, 20, 60, 5) :
        equipo \in {EqA, StrCell(<<55>>), [t |-> "int", v |-> 7]},
        conjunto \in {CjM, StrCell(<<78>>)},
        fecha \in {Timestamp(2024, 3, 15, 600), Timestamp(2024, 12, 30, 0)}}

Selections ==
    [equipo : {Todos, <<65>>, <<55>>},
     conjunto : {Todos, <<77>>},
     ubicacion : {Todos, <<76, 49>>, <<76, 57>>},
     fecha_inicio : {NoneDate, Date(2024, 3, 15), Date(2024, 3, 16)},
     fecha_fin : {NoneDate, Date(2024, 3, 15), Date(2024, 12, 31)}]

\* Raw rows for the normalizer: the TR cell, the end date, the end time and
\* the status vary; the start is 15 March 2024 at 10:00.
RawCols ==
    {"FECHA DE INICIO", "FECHA DE FIN", "HORA INICIO", "HORA FINAL", "TR (min)",
     "STATUS", "EQUIPO", "TIPO DE MTTO", "PRODUCCION AFECTADA (SI-NO)",
     "TIEMPO ESTIMADO DIARIO (min)", "TFS (min)"}

RawRow(tr, fecha_fin, hora_final, status) ==
    [c \in RawCols |->
        CASE c = "FECHA DE INICIO" -> DateCell(D0)
          [] c = "FECHA DE FIN" -> fecha_fin
          [] c = "HORA INICIO" -> TimeCell(600)
          [] c = "HORA FINAL" -> hora_final
          [] c = "TR (min)" -> tr
          [] c = "STATUS" -> status
          [] c = "EQUIPO" -> EqA
          [] c = "TIPO DE MTTO" -> "PREVENTIVO"
          [] c = "PRODUCCION AFECTADA (SI-NO)" -> "SI"
          [] c = "TIEMPO ESTIMADO DIARIO (min)" -> NumCell(60)
          [] OTHER -> NumCell(20)]

TrCells ==
    {NanCell, NumCell(0), NumCell(30), StrCell(<<97, 98, 99>>), StrCell(<<48>>),
     StrCell(<<52, 53>>)}

RawRows ==
    {RawRow(tr, DateCell(ff), hf, status) :
        tr \in TrCells, ff \in {D0, Date(2024, 3, 16)},
        hf \in {TimeCell(645), TimeCell(540), NanCell},
        status \in {"CULMINADO", "PENDIENTE"}}

RawFrames ==
    UNION {Frames(cols, RawRows, MaxRawRows) \ {Frame(cols, <<>>)} :
              cols \in {RawCols, RawCols \ {"TR (min)"}}}

\* A raw row whose start date, end time and downtime cells are given: a sheet
\* can hold a text or an empty cell where a date, a time or a number belongs.
BadCellRow(fecha_inicio, hora_final, tfs, status) ==
    [RawRow(NumCell(30), DateCell(D0), hora_final, status) EXCEPT
        !["FECHA DE INICIO"] = fecha_inicio, !["TFS (min)"] = tfs]

BadCellRows ==
    {BadCellRow(fi, hf, tfs, status) :
        fi \in {DateCell(D0), StrCell(<<97, 98, 99>>), NanCell},
        hf \in {TimeCell(645), StrCell(<<97, 98, 99>>)},
        tfs \in {NumCell(20), NumCell(-5), StrCell(<<97, 98, 99>>)},
        status \in {"CULMINADO", "PENDIENTE"}}

\* The columns clean_and_prepare_data reads without testing for them.
RequiredRawCols == {"FECHA DE INICIO", "FECHA DE FIN", "HORA INICIO", "HORA FINAL"}

\* Raw sheets with every column, without the status column, and without one
\* of the date or time columns.
BadCellFrames ==
    UNION {Frames(cols, BadCellRows, MaxRawRows) \ {Frame(cols, <<>>)} :
              cols \in {RawCols, RawCols \ {"STATUS"}, RawCols \ {"HORA INICIO"},
                        RawCols \ {"FECHA DE FIN"}}}

\* The columns a source may lack.
OptionalCols ==
    {"PRODUCCION_AFECTADA", "TIPO_DE_MTTO", "TFS_MIN", "TR_MIN", "TFC_MIN",
     "TDISPONIBLE", "H_EXTRA_MIN", "UBICACION_TECNICA"}

\* Rows for record sets that lack one optional column.
OptionalRows ==
    {Row(EqA, CjM, tipo, prod, D0, 30, 10, 20, 60, 5) :
        tipo \in {"PREVENTIVO", EMERGENCIA}, prod \in {"SI", "NO"}}

\* Raw sheets for runs that call every operation: the status varies.
EngineRawFrames ==
    Frames(RawCols, {RawRow(NumCell(30), DateCell(D0), TimeCell(645), status) :
                        status \in {"CULMINADO", "PENDIENTE"}}, MaxRawRows)
        \ {Frame(RawCols, <<>>)}

\* What the source can give: a sheet of one or two records, a sheet with
\* no completed record, a sheet without its end-date column, a sheet with a
\* text in a date cell, or an error of the fetch.
SessionSources ==
    {Frame(RawCols, <<RawRow(NumCell(30), DateCell(D0), TimeCell(645), "CULMINADO")>>),
     Frame(RawCols, <<RawRow(NumCell(30), DateCell(D0), TimeCell(645), "CULMINADO"),
                      RawRow(NanCell, DateCell(D0), TimeCell(645), "CULMINADO")>>),
     Frame(RawCols, <<RawRow(NumCell(30), DateCell(D0), TimeCell(645), "PENDIENTE")>>),
     Frame(RawCols \ {"FECHA DE FIN"},
           <<RawRow(NumCell(30), DateCell(D0), TimeCell(645), "CULMINADO")>>),
     Frame(RawCols, <<RawRow(NumCell(30), DateCell(D0), TimeCell(645), "CULMINADO"),
                      BadCellRow(StrCell(<<97, 98, 99>>), TimeCell(645), NumCell(20),
                                 "CULMINADO")>>),
     HTTPError}

(***************************************************************************)
(* State: the raw record set, the normalized record set under analysis,    *)
(* the filter selection, the value the last operation returned, and the    *)
(* name of that operation.                                                 *)
(***************************************************************************)
InitWith(r, d) ==
    /\ raw = r
    /\ df = d
    /\ sel = NoSelection
    /\ result = EmptyMap
    /\ op = "init"
    /\ data = EmptyFrame
    /\ last_update = None
    /\ cache = NoEntry
    /\ now = 0

InitMetrics == \E d \in Frames(AllCols, MetricRows, MaxRows) : InitWith(EmptyFrame, d)

InitScenario == \E d \in ScenarioFrames : InitWith(EmptyFrame, d)

InitWeekly == \E d \in Frames(AllCols, WeeklyRows, MaxWeeklyRows) : InitWith(EmptyFrame, d)

InitFilter ==
    \E cols \in {AllCols, AllCols \ {"UBICACION_TECNICA"}} :
        \E d \in Frames(cols, FilterRows, MaxFilterRows) : InitWith(EmptyFrame, d)

InitClean == \E r \in RawFrames : InitWith(r, EmptyFrame)

InitNormalize == \E r \in BadCellFrames : InitWith(r, EmptyFrame)

InitEngine ==
    \E r \in EngineRawFrames :
        \E d \in Frames(AllCols, OptionalRows, MaxRows) : InitWith(r, d)

InitOptional ==
    \E c \in OptionalCols :
        \E d \in Frames(AllCols \ {c}, OptionalRows, MaxRows) : InitWith(EmptyFrame, d)

\* An operation is called at the script's call point and returns its value.
\* rawAfter and dfAfter are the caller's two record sets once it has returned.
Returns(name, value, rawAfter, dfAfter) ==
    /\ op = "init"
    /\ result' = value
    /\ op' = name
    /\ raw' = rawAfter
    /\ df' = dfAfter
    /\ UNCHANGED <<sel, session>>

\* The two calculators only read df.
CalculateMetrics == Returns("calculate_metrics", calculate_metrics(df), raw, df)

CalculateReliabilityMetrics ==
    Returns("calculate_reliability_metrics", calculate_reliability_metrics(df), raw, df)

GetWeeklyData == Returns("get_weekly_data", get_weekly_data(df), raw, WeeklyArgAfter(df))

GetWeeklyExtraHours ==
    Returns("get_weekly_extra_hours", get_weekly_extra_hours(df), raw, WeeklyArgAfter(df))

GetWeeklyEmergencyData ==
    Returns("get_weekly_emergency_data", get_weekly_emergency_data(df), raw,
            WeeklyArgAfter(df))

\* apply_filters on the record set, with a selection from the filter widgets.
ApplyFilters ==
    \E s \in Selections :
        /\ op = "init"
        /\ sel' = s
        /\ result' = ApplySel(df, s)
        /\ op' = "apply_filters"
        /\ df' = FilterArgAfter(df)
        /\ UNCHANGED <<raw, session>>

\* apply_filters on its own output, with the same selection.
ReapplyFilters ==
    /\ op = "apply_filters"
    /\ ~IsRaised(result)
    /\ result' = ApplySel(result, sel)
    /\ op' = "reapply_filters"
    /\ UNCHANGED <<raw, df, sel, session>>

CleanAndPrepareData ==
    Returns("clean_and_prepare_data", clean_and_prepare_data(raw), CleanArgAfter(raw), df)

\* The script is run again from the top: the values it computed are dropped.
Rerun ==
    /\ op # "init"
    /\ op' = "init"
    /\ result' = EmptyMap
    /\ sel' = NoSelection
    /\ UNCHANGED <<raw, df, session>>

NextAnalysis ==
    \/ Rerun
    \/ CalculateMetrics
    \/ CalculateReliabilityMetrics
    \/ GetWeeklyData
    \/ GetWeeklyExtraHours
    \/ GetWeeklyEmergencyData

NextFilter == ApplyFilters \/ ReapplyFilters \/ Rerun

NextClean == CleanAndPrepareData \/ Rerun

\* Every public operation of the engine, called on the record set.
NextEngine == NextAnalysis \/ ApplyFilters

Next == NextAnalysis \/ NextFilter \/ NextClean

SpecMetrics == InitMetrics /\ [][NextAnalysis]_vars

SpecScenario == InitScenario /\ [][NextAnalysis]_vars

SpecWeekly == InitWeekly /\ [][NextAnalysis]_vars

SpecFilter == InitFilter /\ [][NextFilter]_vars

SpecClean == InitClean /\ [][NextClean]_vars

SpecNormalize == InitNormalize /\ [][NextClean]_vars

SpecOptional == InitOptional /\ [][NextEngine]_vars

SpecEngine == InitEngine /\ [][Next]_vars

(***************************************************************************)
(* main, run in one session, while time passes and the source changes.     *)
(***************************************************************************)
InitSession == \E r \in SessionSources : InitWith(r, EmptyFrame)

\* One run of main up to the sidebar: the session keys exist after the
\* first run; the loader is called only while the session's record set is
\* empty, and its value is stored only if it is not empty.
Main ==
    LET called == IsEmpty(data)
        hit == CacheValid(cache, now)
        loaded == IF hit THEN cache.value ELSE load_data_from_google_sheets(raw)
    IN  /\ IF called
           THEN /\ cache' = IF hit THEN cache
                            ELSE [set |-> TRUE, value |-> loaded, at |-> now]
                /\ IF ~IsEmpty(loaded)
                   THEN /\ data' = loaded
                        /\ last_update' = get_current_datetime_spanish(now)
                   ELSE UNCHANGED <<data, last_update>>
           ELSE UNCHANGED <<data, last_update, cache>>
        /\ result' = [called |-> called, fetched |-> called /\ ~hit,
                      returned |-> IF called THEN loaded ELSE EmptyFrame]
        /\ op' = "main"
        /\ UNCHANGED <<raw, df, sel, now>>

\* A minute passes.
Tick ==
    /\ now < MaxClock
    /\ now' = now + 1
    /\ op' = "tick"
    /\ result' = EmptyMap
    /\ UNCHANGED <<raw, df, sel, data, last_update, cache>>

\* The sheet is edited, or the source becomes unreachable or reachable.
SourceChanges ==
    \E r \in SessionSources \ {raw} :
        /\ raw' = r
        /\ op' = "source_changes"
        /\ result' = EmptyMap
        /\ UNCHANGED <<df, sel, session>>

NextSession == Main \/ Tick \/ SourceChanges

SpecSession == InitSession /\ [][NextSession]_vars

Spec == InitScenario /\ [][Next]_vars

(***************************************************************************)
(* Properties.                                                             *)
(***************************************************************************)
IsEmptyMap(r) == DOMAIN r = {}

IsMapping(r) == ~IsRaised(r) /\ ~IsEmptyMap(r)

WeeklyOps == {"get_weekly_data", "get_weekly_extra_hours", "get_weekly_emergency_data"}

\* The rows of the input a weekly view is built from.
Contributing(name, rows) ==
    IF name = "get_weekly_data" THEN ProdAfectada(rows)
    ELSE IF name = "get_weekly_emergency_data" THEN OfTipo(rows, EMERGENCIA)
    ELSE rows

\* C1: for a non-empty record set with TD > 0, availability% plus
\* unavailability% is exactly 100, also when TFS exceeds TD.
C1_AvailabilityComplement ==
    (op = "calculate_metrics" /\ IsMapping(result) /\ result.td > 0)
        => RatIs(RatAdd(result.disponibilidad, result.indisponibilidad), 100)

\* C2: the type-distribution percentages sum to 100 when the total repair
\* time over all maintenance types is positive (unseen types included), and
\* are all 0 when it is 0.
C2_TypeDistributionSums ==
    (op = "calculate_metrics" /\ IsMapping(result)) =>
        LET total == ColSum(df.rows, "TR_MIN")
            pcts == <<result.mp_pct, result.mbc_pct, result.mce_pct, result.mcp_pct,
                      result.mms_pct>>
            sum == RatAdd(pcts[1], RatAdd(pcts[2], RatAdd(pcts[3],
                       RatAdd(pcts[4], pcts[5]))))
        IN  /\ total > 0 => RatIs(sum, 100)
            /\ total = 0 => \A i \in 1..5 : IsZero(pcts[i])

\* The ISO (year, week) of a row's start date, as one number.
IsoKey(r) == IsoYear(r.FECHA_DE_INICIO) * 100 + IsoWeek(r.FECHA_DE_INICIO)

\* The position, in a weekly view, of the bucket a row was put in.
BucketPos(view, r) ==
    CHOOSE i \in 1..Len(view.rows) : view.rows[i].SEMANA_STR = WithWeek(r).SEMANA_STR

\* C3: each weekly aggregator buckets by the ISO (year, week) of the start
\* date: two records share a bucket exactly when they share ISO year and ISO
\* week, and buckets are emitted in chronological (ISO) order.
C3_IsoBucketing ==
    (op \in WeeklyOps /\ ~IsRaised(result)) =>
        LET rows == Contributing(op, df.rows)
        IN  \A i, j \in 1..Len(rows) :
              /\ (BucketPos(result, rows[i]) = BucketPos(result, rows[j]))
                    <=> (IsoKey(rows[i]) = IsoKey(rows[j]))
              /\ IsoKey(rows[i]) < IsoKey(rows[j])
                    => BucketPos(result, rows[i]) < BucketPos(result, rows[j])

\* The (year, week) sort key of a bucket, as a number.
SortKey(b) == b.ANIO * 100 + b.SEMANA

\* C4: the bucket sequence of each weekly aggregator is strictly ascending
\* by the (year, week) sort key, so no two buckets share a key.
C4_WeeklyStrictlyAscending ==
    (op \in WeeklyOps /\ ~IsRaised(result)) =>
        \A i, j \in 1..Len(result.rows) :
            i < j => SortKey(result.rows[i]) < SortKey(result.rows[j])

\* A weekly view of two buckets, one of 2024 and one of 2025.
C4_Witness ==
    /\ op \in WeeklyOps
    /\ ~IsRaised(result)
    /\ Len(result.rows) = 2
    /\ result.rows[1].ANIO = 2024
    /\ result.rows[2].ANIO = 2025

\* A computed rate is a number: a finite fraction, or 1 - exp(-x) of one.
IsDefined(x) == IsFinite(x) \/ (x.k = "1-exp(-x)" /\ IsFinite(x.x))

\* C5: every ratio has a zero fallback for a zero denominator and is never
\* undefined or infinite: the global and the emergency rates, the weekly
\* MTTR, and the general weekly view's availability% per bucket.
C5_ZeroFallback ==
    /\ (op = "calculate_metrics" /\ IsMapping(result)) =>
          /\ \A x \in {result.disponibilidad, result.indisponibilidad, result.mtbf,
                       result.mttf, result.mttr, result.mantenibilidad} : IsDefined(x)
          /\ result.td = 0 =>
                \A x \in {result.disponibilidad, result.indisponibilidad,
                          result.mantenibilidad} : IsZero(x)
          /\ result.total_fallas = 0 =>
                \A x \in {result.mtbf, result.mttf, result.mttr,
                          result.mantenibilidad} : IsZero(x)
    /\ (op = "calculate_reliability_metrics" /\ IsMapping(result)) =>
          /\ \A x \in {result.mtbf_emergency, result.mttr_emergency,
                       result.mttf_emergency, result.mantenibilidad_emergency} :
                IsDefined(x)
          /\ result.td = 0 =>
                IsZero(result.mtbf_emergency) /\ IsZero(result.mantenibilidad_emergency)
    /\ (op = "get_weekly_emergency_data" /\ ~IsRaised(result)) =>
          \A i \in 1..Len(result.rows) : IsFinite(result.rows[i].MTTR_SEMANAL)
    /\ (op = "get_weekly_data" /\ ~IsRaised(result)) =>
          \A i \in 1..Len(result.rows) :
              /\ IsFinite(result.rows[i].DISPO_SEMANAL)
              /\ result.rows[i].TDISPONIBLE = 0 => IsZero(result.rows[i].DISPO_SEMANAL)

\* C6: apply_filters is idempotent: applied with the same selection to its
\* own output, it returns the record set the first application returned.
C6_FilterIdempotent ==
    op = "reapply_filters" => result = ApplySel(df, sel)

\* A second application on an output that kept some rows and dropped others.
C6_Witness ==
    /\ op = "reapply_filters"
    /\ ~IsRaised(result)
    /\ result.rows # <<>>
    /\ Len(result.rows) < Len(df.rows)
    /\ sel.equipo # Todos
    /\ sel.fecha_inicio # NoneDate /\ sel.fecha_fin # NoneDate

ReliabilityKeys ==
    {"td", "tr_emergency", "tfc_emergency", "tfs_emergency", "total_fallas_emergency",
     "total_fallas_emergency_con_parada", "mtbf_emergency", "mttr_emergency",
     "mttf_emergency", "mantenibilidad_emergency"}

HasEmergency(rows) == \E i \in 1..Len(rows) : rows[i].TIPO_DE_MTTO = EMERGENCIA

\* C7: calculate_reliability_metrics returns the empty mapping exactly when
\* the input has no emergency-corrective record (empty input included), and
\* otherwise a mapping holding every reliability metric.
C7_ReliabilityNoData ==
    op = "calculate_reliability_metrics" =>
        /\ ~IsRaised(result)
        /\ IsEmptyMap(result) <=> ~HasEmergency(df.rows)
        /\ HasEmergency(df.rows) => ReliabilityKeys \subseteq DOMAIN result

\* A populated mapping for an input whose only emergency record did not
\* affect production, beside a record of another type.
C7_Witness ==
    /\ op = "calculate_reliability_metrics"
    /\ Len(df.rows) = 2
    /\ df.rows[1].TIPO_DE_MTTO = EMERGENCIA /\ df.rows[1].PRODUCCION_AFECTADA = "NO"
    /\ df.rows[2].TIPO_DE_MTTO = "PREVENTIVO"
    /\ IsMapping(result)
    /\ result.total_fallas_emergency = 1

MetricKeys ==
    {"td", "tfs", "tr", "tfc", "to", "disponibilidad", "indisponibilidad",
     "total_fallas", "mtbf", "mttf", "mttr", "mantenibilidad", "mp_pct", "mbc_pct",
     "mce_pct", "mcp_pct", "mms_pct", "horas_extras_acumuladas"}

\* C8: calculate_metrics returns the empty mapping if and only if the input
\* is empty; a non-empty input, even all zeros, gives every named metric.
C8_MetricsNoData ==
    op = "calculate_metrics" =>
        /\ ~IsRaised(result)
        /\ IsEmptyMap(result) <=> df.rows = <<>>
        /\ df.rows # <<>> => DOMAIN result = MetricKeys

\* A non-empty input whose numeric fields are all zero, and its mapping of zeros.
C8_Witness ==
    /\ op = "calculate_metrics"
    /\ df.rows # <<>>
    /\ \A i \in 1..Len(df.rows) :
          \A c \in {"TR_MIN", "TFC_MIN", "TFS_MIN", "TDISPONIBLE", "H_EXTRA_MIN"} :
              df.rows[i][c] = 0
    /\ IsMapping(result)
    /\ result.td = 0 /\ result.tr = 0 /\ IsZero(result.mttr)

\* The scenario's record set: an emergency record that affected production
\* with TR 60, a preventive one that did not with TR 30, an emergency one
\* that did not with TR 20, in any order.
IsScenario(rows) ==
    /\ Len(rows) = 3
    /\ \E p \in Permutations3 :
          /\ rows[p[1]].TIPO_DE_MTTO = EMERGENCIA /\ rows[p[1]].PRODUCCION_AFECTADA = "SI"
          /\ rows[p[1]].TR_MIN = 60
          /\ rows[p[2]].TIPO_DE_MTTO = "PREVENTIVO" /\ rows[p[2]].PRODUCCION_AFECTADA = "NO"
          /\ rows[p[2]].TR_MIN = 30
          /\ rows[p[3]].TIPO_DE_MTTO = EMERGENCIA /\ rows[p[3]].PRODUCCION_AFECTADA = "NO"
          /\ rows[p[3]].TR_MIN = 20

\* C9: on the scenario, calculate_metrics counts and sums the
\* production-affected record only (failure_count 1, TR 60, MTTR 60) and
\* calculate_reliability_metrics every emergency record (2 failures, 1 with
\* stoppage, TR 80, MTTR 40).
C9_Scenario ==
    IsScenario(df.rows) =>
        /\ op = "calculate_metrics" =>
              /\ IsMapping(result)
              /\ result.total_fallas = 1
              /\ result.tr = 60
              /\ RatIs(result.mttr, 60)
        /\ op = "calculate_reliability_metrics" =>
              /\ IsMapping(result)
              /\ result.total_fallas_emergency = 2
              /\ result.total_fallas_emergency_con_parada = 1
              /\ result.tr_emergency = 80
              /\ RatIs(result.mttr_emergency, 40)

\* The reliability calculator has returned for the scenario's records.
C9_Witness ==
    /\ IsScenario(df.rows)
    /\ op = "calculate_reliability_metrics"
    /\ IsMapping(result)
    /\ result.tr_emergency = 80

\* The raw row a normalized row came from: the one with its index label.
RawOf(r) == raw.rows[r["index"] + 1]

\* The source TR cell holds a usable number: a number, or a text of digits.
UsableNumber(cell) == cell.t = "num" \/ (cell.t = "str" /\ IsDigits(cell.v))

NumberOf(cell) == IF cell.t = "num" THEN cell.v ELSE IntOfStr(cell.v)

\* Minutes from the start timestamp to the end timestamp, floored at 0
\* (0 when a timestamp cannot be formed).
DerivedMinutes(src) ==
    LET fi == src["FECHA DE INICIO"]
        ff == src["FECHA DE FIN"]
        hi == src["HORA INICIO"]
        hf == src["HORA FINAL"]
    IN  IF fi.t = "date" /\ ff.t = "date" /\ hi.t = "time" /\ hf.t = "time"
        THEN Max((Ordinal(ff.v) - Ordinal(fi.v)) * 1440 + hf.v - hi.v, 0)
        ELSE 0

\* C10: after clean_and_prepare_data every record's TR is the source value
\* when that is present and non-zero, and otherwise (absent, empty, zero or
\* no usable number) the minutes from start to end timestamp floored at 0.
C10_RepairTimeFallback ==
    (op = "clean_and_prepare_data" /\ ~IsRaised(result)) =>
        \A i \in 1..Len(result.rows) :
            LET r == result.rows[i]
                src == RawOf(r)
            IN  IF "TR (min)" \in raw.cols /\ UsableNumber(src["TR (min)"])
                   /\ NumberOf(src["TR (min)"]) # 0
                THEN r["TR_MIN"] = NumberOf(src["TR (min)"])
                ELSE r["TR_MIN"] = DerivedMinutes(src)

\* C11: in every record set clean_and_prepare_data returns, each of the six
\* numeric fields is non-negative, whatever the source cells hold (negative
\* numbers and unparseable text included).
C11_NumericNonNegative ==
    (op = "clean_and_prepare_data" /\ ~IsRaised(result)) =>
        \A i \in 1..Len(result.rows) :
            \A c \in NumericColumns \cap result.cols : result.rows[i][c] >= 0

\* C12: every record clean_and_prepare_data returns has status CULMINADO,
\* also when the raw input has no status column, and every CULMINADO input
\* record is retained.
C12_OnlyCompleted ==
    (op = "clean_and_prepare_data" /\ ~IsRaised(result)) =>
        /\ \A i \in 1..Len(result.rows) :
              "STATUS" \in result.cols /\ result.rows[i]["STATUS"] = "CULMINADO"
        /\ \A j \in 1..Len(raw.rows) :
              ("STATUS" \in raw.cols /\ raw.rows[j]["STATUS"] = "CULMINADO")
                  => \E i \in 1..Len(result.rows) : result.rows[i]["index"] = j - 1

\* The raw rows the status filter keeps.
Retained(d) ==
    IF "STATUS" \in d.cols
    THEN SelectSeq(d.rows, LAMBDA r : r["STATUS"] = "CULMINADO")
    ELSE d.rows

\* C14: with the date and time columns present, one record's unparseable
\* date, time of day or number never aborts clean_and_prepare_data: it
\* returns a record set, and no record is dropped for a bad cell.
C14_BadCellRecoveredLocally ==
    (op = "clean_and_prepare_data" /\ RequiredRawCols \subseteq raw.cols) =>
        /\ ~IsRaised(result)
        /\ Len(result.rows) = Len(Retained(raw))

\* C15: on a raw input without its start-date, end-date or time-of-day
\* columns clean_and_prepare_data returns an empty record set and does not
\* raise.
C15_EmptyOnUnrecoverable ==
    (op = "clean_and_prepare_data" /\ ~(RequiredRawCols \subseteq raw.cols)) =>
        ~IsRaised(result) /\ IsEmpty(result)

EngineOps ==
    {"calculate_metrics", "calculate_reliability_metrics", "apply_filters"} \cup WeeklyOps

\* C13: on a record set that lacks an optional column, every public
\* operation of the engine returns without raising, and the two calculators
\* count the absent column as zero.
C13_AbsentOptionalColumn ==
    (op \in EngineOps /\ OptionalCols \ df.cols # {}) =>
        /\ ~IsRaised(result)
        /\ (op = "calculate_metrics" /\ IsMapping(result)) =>
              /\ "TDISPONIBLE" \notin df.cols => result.td = 0
              /\ "TFS_MIN" \notin df.cols => result.tfs = 0
              /\ "TR_MIN" \notin df.cols => result.tr = 0
              /\ "TFC_MIN" \notin df.cols => result.tfc = 0
              /\ "H_EXTRA_MIN" \notin df.cols => result.horas_extras_acumuladas = 0
        /\ (op = "calculate_reliability_metrics" /\ IsMapping(result)) =>
              /\ "TDISPONIBLE" \notin df.cols => result.td = 0
              /\ "TR_MIN" \notin df.cols => result.tr_emergency = 0

\* C16: for a non-empty record set the operating time calculate_metrics
\* returns is TD - TFS floored at 0, TD the available time summed over all
\* records and TFS the downtime summed over the production-affected ones.
C16_OperatingTime ==
    (op = "calculate_metrics" /\ IsMapping(result)) =>
        LET TD == ColSum(df.rows, "TDISPONIBLE")
            TFS == ColSum(SelectSeq(df.rows, LAMBDA r : r.PRODUCCION_AFECTADA = "SI"),
                          "TFS_MIN")
        IN  /\ result.to = (IF TD - TFS > 0 THEN TD - TFS ELSE 0)
            /\ result.to >= 0

\* Downtime of the production-affected records exceeds the available time,
\* beside a record whose downtime does not count, and the operating time is 0.
C16_Witness ==
    /\ op = "calculate_metrics"
    /\ IsMapping(result)
    /\ Len(df.rows) = 2
    /\ df.rows[1].PRODUCCION_AFECTADA = "SI" /\ df.rows[1].TFS_MIN = 90
    /\ df.rows[2].PRODUCCION_AFECTADA = "NO" /\ df.rows[2].TFS_MIN = 90
    /\ result.td = 60
    /\ result.tfs = 90
    /\ result.to = 0

\* The selection restricts the record set only by predicates it can apply:
\* a location value needs the location column, a date range needs both ends.
Applicable(d, s) ==
    /\ s.ubicacion = Todos \/ "UBICACION_TECNICA" \in d.cols
    /\ (s.fecha_inicio = NoneDate) <=> (s.fecha_fin = NoneDate)

\* The record satisfies the four predicates of the selection.
Satisfies(r, s) ==
    /\ s.equipo = Todos \/ AsStr(r.EQUIPO) = s.equipo
    /\ s.conjunto = Todos \/ AsStr(r.CONJUNTO) = s.conjunto
    /\ s.ubicacion = Todos \/ AsStr(r.UBICACION_TECNICA) = s.ubicacion
    /\ \/ s.fecha_inicio = NoneDate
       \/ /\ Ordinal(s.fecha_inicio) <= Ordinal(r.FECHA_DE_INICIO)
          /\ Ordinal(r.FECHA_DE_INICIO) <= Ordinal(s.fecha_fin)

C18_InputNeverMutated == [][raw' = raw /\ df' = df]_vars

\* A weekly aggregator has built its buckets from a two-record set: the week
\* columns it assigned are in its output and not in its input.
C18_Witness ==
    /\ op \in WeeklyOps
    /\ Len(df.rows) = 2
    /\ ~IsRaised(result)
    /\ result.rows # <<>>
    /\ "SEMANA_STR" \in result.cols
    /\ df.cols = AllCols

\* C19: when the fetch or the normalization inside it fails, the loader
\* returns an empty record set, and main leaves the session's record set
\* empty and its last-update timestamp unset; the timestamp is set only
\* while the session holds a non-empty record set.
C19_FailedLoadLeavesSessionEmpty ==
    /\ (op = "main" /\ result.fetched
            /\ (IsRaised(raw) \/ IsRaised(clean_and_prepare_data(raw)))) =>
          /\ result.returned = EmptyFrame
          /\ IsEmpty(data)
          /\ last_update = None
    /\ last_update # None => ~IsEmpty(data)

\* main has run after the first minute on a sheet whose normalization
\* raises: the loader was called, not served from the cache, and the session
\* is still empty.
C19_Witness ==
    /\ op = "main"
    /\ result.fetched
    /\ ~IsRaised(raw)
    /\ IsRaised(clean_and_prepare_data(raw))
    /\ now > 0
    /\ IsEmpty(data)
    /\ last_update = None

\* C20: once the session holds a non-empty record set, a run of main after
\* the 5-minute refresh interval has elapsed since the last load replaces
\* the record set with the one the source now gives and updates the
\* last-update timestamp.
C20_RefreshReplaces ==
    (op = "main" /\ ~IsEmpty(data) /\ last_update # None
        /\ now - last_update.at >= TTL
        /\ ~IsEmpty(load_data_from_google_sheets(raw))) =>
            /\ data = load_data_from_google_sheets(raw)
            /\ last_update.at = now

\* The records whose production_affected flag is 'SI'.
Affected(rows) == SelectSeq(rows, LAMBDA r : r.PRODUCCION_AFECTADA = "SI")

\* The emergency-corrective records.
Emergencies(rows) == SelectSeq(rows, LAMBDA r : r.TIPO_DE_MTTO = EMERGENCIA)

\* C21: in calculate_metrics the failure count and the TFS, TR and TFC sums
\* cover exactly the records flagged 'SI', while the available time and the
\* accumulated overtime are summed over every record.
C21_MaskedAndUnmaskedSums ==
    (op = "calculate_metrics" /\ IsMapping(result)) =>
        LET si == Affected(df.rows)
        IN  /\ result.total_fallas = Len(si)
            /\ result.tfs = ColSum(si, "TFS_MIN")
            /\ result.tr = ColSum(si, "TR_MIN")
            /\ result.tfc = ColSum(si, "TFC_MIN")
            /\ result.td = ColSum(df.rows, "TDISPONIBLE")
            /\ result.horas_extras_acumuladas = ColSum(df.rows, "H_EXTRA_MIN")

\* One record flagged 'SI' and one flagged 'NO', each with available time
\* 60, downtime 20 and overtime 5: one failure, downtime 20, TD 120, overtime 10.
C21_Witness ==
    /\ op = "calculate_metrics"
    /\ IsMapping(result)
    /\ Len(df.rows) = 2
    /\ df.rows[1].PRODUCCION_AFECTADA = "SI"
    /\ df.rows[2].PRODUCCION_AFECTADA = "NO"
    /\ result.total_fallas = 1
    /\ result.tfs = 20
    /\ result.td = 120
    /\ result.horas_extras_acumuladas = 10

\* C22: in calculate_reliability_metrics TD is the available time summed over
\* the whole input, the emergency failure count is the number of emergency
\* records whatever their production flag, and the with-stoppage count is the
\* number of emergency records flagged 'SI', never above the failure count.
C22_ReliabilityCounts ==
    (op = "calculate_reliability_metrics" /\ IsMapping(result)) =>
        LET em == Emergencies(df.rows)
        IN  /\ result.td = ColSum(df.rows, "TDISPONIBLE")
            /\ result.total_fallas_emergency = Len(em)
            /\ result.total_fallas_emergency_con_parada = Len(Affected(em))
            /\ result.total_fallas_emergency_con_parada <= result.total_fallas_emergency

\* An emergency record that did not affect production beside a preventive
\* one that did, each with available time 60: TD 120, one failure, none
\* with stoppage.
C22_Witness ==
    /\ op = "calculate_reliability_metrics"
    /\ IsMapping(result)
    /\ Len(df.rows) = 2
    /\ df.rows[1].TIPO_DE_MTTO = EMERGENCIA /\ df.rows[1].PRODUCCION_AFECTADA = "NO"
    /\ df.rows[2].TIPO_DE_MTTO = "PREVENTIVO" /\ df.rows[2].PRODUCCION_AFECTADA = "SI"
    /\ result.td = 120
    /\ result.total_fallas_emergency = 1
    /\ result.total_fallas_emergency_con_parada = 0

\* C23: with at least one emergency record, MTBF_emergency is TD over the
\* emergency failure count when TD > 0 and 0 otherwise, MTTR_emergency is the
\* emergency TR over that count, and MTTF_emergency is max(TD - D, 0) over
\* that count, D the downtime of the emergency records that affected
\* production only.
C23_EmergencyRates ==
    (op = "calculate_reliability_metrics" /\ IsMapping(result)) =>
        LET em == Emergencies(df.rows)
            n == Len(em)
            TD == ColSum(df.rows, "TDISPONIBLE")
            D == ColSum(Affected(em), "TFS_MIN")
            TO == IF TD - D > 0 THEN TD - D ELSE 0
        IN  /\ IF TD > 0 THEN RatEq(result.mtbf_emergency, Rat(TD, n))
                         ELSE IsZero(result.mtbf_emergency)
            /\ RatEq(result.mttr_emergency, Rat(ColSum(em, "TR_MIN"), n))
            /\ RatEq(result.mttf_emergency, Rat(TO, n))

\* Two emergency records, one with stoppage and one without, downtime 20
\* each, TD 60: MTTF is (60 - 20) / 2 = 20, not (60 - 40) / 2.
C23_Witness ==
    /\ op = "calculate_reliability_metrics"
    /\ IsMapping(result)
    /\ result.total_fallas_emergency = 2
    /\ result.total_fallas_emergency_con_parada = 1
    /\ result.td = 60
    /\ result.tfs_emergency = 40
    /\ RatIs(result.mttf_emergency, 20)
    /\ RatIs(result.mtbf_emergency, 30)

\* The record's start date falls in the week a bucket is labelled with.
InWeek(r, b) ==
    r.FECHA_DE_INICIO.y = b.ANIO /\ IsoWeek(r.FECHA_DE_INICIO) = b.SEMANA

\* The records of a bucket's week, in input order.
OfWeek(rows, b) == SelectSeq(rows, LAMBDA r : InWeek(r, b))

\* Every record has a bucket, and no bucket is without a record.
BucketsCover(view, rows) ==
    /\ \A i \in 1..Len(rows) : \E j \in 1..Len(view.rows) : InWeek(rows[i], view.rows[j])
    /\ \A j \in 1..Len(view.rows) : OfWeek(rows, view.rows[j]) # <<>>

Effective(d, s) ==
    [s EXCEPT !.ubicacion = IF "UBICACION_TECNICA" \in d.cols THEN @ ELSE Todos,
              !.fecha_inicio = IF s.fecha_fin = NoneDate THEN NoneDate ELSE @,
              !.fecha_fin = IF s.fecha_inicio = NoneDate THEN NoneDate ELSE @]

\* C27: apply_filters applies a restriction only when it can: with only one
\* date bound supplied no date restriction is applied, and a location value
\* other than 'Todos' on a record set with no location column is ignored,
\* the records being returned as if 'Todos' had been chosen.
C27_InapplicableRestrictionSkipped ==
    (op = "apply_filters" /\ ~Applicable(df, sel)) =>
        /\ ~IsRaised(result)
        /\ result.cols = df.cols
        /\ result.rows = SelectSeq(df.rows, LAMBDA r : Satisfies(r, Effective(df, sel)))

\* A location value on a record set without the location column, and a
\* start of the range (16 March) without its end: both records are
\* returned, the one of 15 March included.
C27_Witness ==
    /\ op = "apply_filters"
    /\ "UBICACION_TECNICA" \notin df.cols
    /\ sel.ubicacion = <<76, 49>>
    /\ sel.fecha_inicio = Date(2024, 3, 16)
    /\ sel.fecha_fin = NoneDate
    /\ Len(df.rows) = 2
    /\ df.rows[1].FECHA_DE_INICIO = Timestamp(2024, 3, 15, 600)
    /\ ~IsRaised(result)
    /\ result.rows = df.rows

====
